---- MODULE Spec2Model ----
(***************************************************************************)
(* State-machine model of the orchestration core of jephthahhuman:         *)
(*   - brain/planner.py    TaskScheduler (heapq priority queue of Tasks)   *)
(*   - brain/instincts.py  Instinct (rate / threat governor)               *)
(*   - main.py             Jephthah worker loops, e-mail / forum ledgers   *)
(*   - income/*.py         job application history                        *)
(* Each component has its own specification over the shared variables; the *)
(* variables of the other components stay at their constructed value.      *)
(***************************************************************************)
EXTENDS Integers, Sequences, FiniteSets, TLC

VARIABLES
    \* ---- brain/planner.py : TaskScheduler and its Task objects
    task_queue,       \* TaskScheduler.task_queue : the heapq array of tasks
    created,          \* how many Task objects have been constructed so far
    priority,         \* Task.priority.value of each task
    task_type,        \* Task.task_type of each task
    attempts,         \* Task.attempts of each task
    status,           \* Task.status of each task
    completed_today,  \* TaskScheduler.completed_today
    task_handlers,    \* TaskScheduler.task_handlers : registered task types
    sched_ret,        \* what the last scheduler call did and returned
    added_order,      \* history: queued tasks, in the order add_task got them
    \* ---- brain/instincts.py : Instinct
    blocked_platforms,  \* Instinct.blocked_platforms : platform -> unblock time
    failed_logins,      \* Instinct.failed_logins : platform -> count
    api_calls_today,    \* Instinct.api_calls_today
    money_spent_today,  \* Instinct.money_spent_today (whole dollars)
    action_timestamps,  \* Instinct.action_timestamps : key -> list of times
    now,                \* datetime.utcnow(), in clock ticks
    advances,           \* how many times the clock has been advanced
    gov_ret,            \* what the last Instinct call was and returned
    failure_streak,     \* history: consecutive login failures per platform
    third_failure_at,   \* history: time of the failure that completed a streak
    auto_block,         \* history: "no", "blocked" or "unblocked" per platform
    \* ---- main.py / income/job_machine.py : the idempotency ledgers
    ledger_set,     \* in memory: replied_ids, already_registered and the URLs
                    \* of job_machine.applications_history, per namespace
    ledger_file,    \* on disk: replied_emails.json, registered_forums.json,
                    \* job_applications.json, per namespace
    writing,        \* where the process is inside a mark: <<>> when outside
    acted,          \* history: how often the external action ran, per key
    marked,         \* history: keys whose mark (add and file write) completed
    led_ret,        \* what the last ledger step was
    \* ---- main.py : Jephthah, its worker loops and work_loop
    running,        \* Jephthah.running
    main_pc,        \* where main() is: run_forever, work_loop, shutdown
    worker_pc,      \* where each worker task created by wake_up is
    completed,      \* history: iterations completed per worker, counted
                    \* modulo MaxIter + 1
    faulty,         \* environment: the loops whose body raises every time
    learn_pc,       \* where the _learn_forever task is
    topic,          \* _learn_forever: index of the topic of its for loop
    \* ---- brain/memory.py : the ActionLog table
    action_log,     \* the rows log_action has inserted, oldest first
    \* ---- brain/planner.py : plan_day
    task_plan,      \* name, action and goal_id of the tasks plan_day made
    plans_made,     \* history: number of plan_day calls
    plan_ret,       \* history: the goals the last plan_day call read
    \* ---- brain/instincts.py : Instinct, threat awareness
    current_threats,  \* Instinct.current_threats
    threat_history,   \* Instinct.threat_history
    last_reset_day,   \* history: the UTC day of the last daily_reset call
    threat_ret,       \* history: the last detect_threat call and its result
    \* ---- brain/memory.py : the goals table
    goal_current,     \* Goal.current_value of each row
    goal_status,      \* Goal.status of each row
    goal_ret,         \* history: the last report_progress call
    \* ---- money/crm.py, brain/multitask.py : leads and cold e-mail
    lead_status,      \* leads.status of each row ("absent": no such row)
    lead_email,       \* whether get_leads finds an e-mail address in the row
    sent_count,       \* ColdMailer.sent_count
    delivered,        \* history: the leads whose send_cold_email returned True
    crm_ret,          \* history: the last CRM / cold e-mail step
    \* ---- infra/network.py : RateLimiter, one key
    lim_set,          \* whether the key is in RateLimiter.limits
    lim_calls,        \* RateLimiter.calls[key], as the age of each call in ticks
    caller_pc,        \* where each caller of acquire(key) is
    sleep_left,       \* ticks left of each caller's asyncio.sleep(wait)
    \* ---- main.py _handle_error, voice/bestie.py report_problem
    notify_streak,    \* history: how many iterations in a row of each loop
                      \* ended with bestie.report_problem
    \* ---- brain/planner.py run_schedule
    run_pc,           \* where run_schedule is in its loop
    \* ---- brain/scheduler.py Scheduler
    tasks,            \* self.tasks: one-shot tasks sorted by run_at
    recurring,        \* self.recurring: name, interval, last_run
    runs_completed,   \* self.completed of the recurring scheduler
    utcnow,           \* datetime.utcnow() of this scheduler, in minutes
    run_next_ret,     \* what the last call did
    last_called,      \* history: when each recurring func was last awaited
    run_calls,        \* history: how many run_next calls were made
    \* ---- brain/assistant.py AIAssistant
    client,           \* self.client is set
    calls_today,      \* self.calls_today
    ask_pc,           \* where each caller of ask is
    requests_sent,    \* history: requests sent since the last reset_daily
    ask_ret           \* what the last step of ask did

schedVars == <<task_queue, created, priority, task_type, attempts, status,
               completed_today, task_handlers, sched_ret, added_order>>

govVars == <<blocked_platforms, failed_logins, api_calls_today,
             money_spent_today, action_timestamps, now, advances, gov_ret,
             failure_streak, third_failure_at, auto_block>>

ledgerVars == <<ledger_set, ledger_file, writing, acted, marked, led_ret>>

workerVars == <<running, main_pc, worker_pc, completed, faulty>>

learnVars == <<learn_pc, topic>>

logVars == <<action_log>>

planVars == <<task_plan, plans_made, plan_ret>>

threatVars == <<current_threats, threat_history, last_reset_day, threat_ret>>

goalVars == <<goal_current, goal_status, goal_ret>>

crmVars == <<lead_status, lead_email, sent_count, delivered, crm_ret>>

limiterVars == <<lim_set, lim_calls, caller_pc, sleep_left>>

notifyVars == <<notify_streak>>

runVars == <<run_pc>>

recurVars == <<tasks, recurring, runs_completed, utcnow, run_next_ret, last_called,
              run_calls>>

askVars == <<client, calls_today, ask_pc, requests_sent, ask_ret>>

\* The variables of the services around the scheduler, governor and workers.
serviceVars == <<goalVars, crmVars, limiterVars, notifyVars, runVars,
                 recurVars, askVars>>

vars == <<schedVars, govVars, ledgerVars, workerVars, learnVars, logVars,
          planVars, threatVars, serviceVars>>

None == "None"

\* ------------------------------------------------------------------ bounds
NumTasks == 3        \* Task objects ever constructed

TicksPerHour == 2    \* clock resolution: ticks in one hour
MaxAdvances == 2     \* clock advances in one run
ExtraFailures == 1   \* record_failure calls modelled beyond max_failed_logins
MaxActs == 2         \* external actions modelled per ledger key
MaxIter == 1         \* the completed-iteration counters wrap after MaxIter
MaxLog == 2          \* rows modelled in the ActionLog table
MaxPlans == 1        \* plan_day calls in one run
MaxThreats == 2      \* detect_threat calls in one run
MaxValue == 3        \* the largest value report_progress is called with
NumLeads == 3        \* rows ever inserted into the leads table
LimitMax == 2        \* set_limit(key, max_calls, ...)
PeriodTicks == 3     \* set_limit(key, ..., period_seconds), in clock ticks
MaxStreak == 2       \* notify_streak is counted up to MaxStreak
MaxMinutes == 3      \* utcnow of the recurring scheduler runs to MaxMinutes
MaxRuns == 4         \* run_next calls made by run_forever
MaxOneShots == 1     \* add() calls
MaxOver == 2         \* requests_sent is followed up to MaxCalls + MaxOver

\* ------------------------------------------------------- program constants
MaxAttempts == 3     \* Task.max_attempts
MaxDailyApiCalls == 1000   \* Instinct.max_daily_api_calls
MaxDailySpend == 50        \* Instinct.max_daily_spend (USD)
MaxFailedLogins == 3       \* Instinct.max_failed_logins
BlockHours == 24           \* record_failure: block_platform(platform, hours=24)
WindowHours == 1           \* _check_rate_limit: timedelta(hours=1)
LoginLimit == 5            \* limits["login"]
PostLimit == 20            \* limits["post"]
ApplyLimit == 30           \* limits["apply"]
MessageLimit == 50         \* limits["message"]
FollowLimit == 100         \* limits["follow"]
DefaultLimit == 60         \* limits.get(action, 60)
NumTopics == 10            \* _learn_forever: len(topics)
BatchCap == 10             \* plan_day: range(min(target, 10))
MinJobs == 50              \* get_daily_tasks: max(50, int(daily_target / 100))
DefaultDays == 30          \* get_daily_tasks: remaining / 30
HistoryKept == 500         \* _record_threat: threat_history[-500:]
MaxCalls == 100            \* AIAssistant.max_calls

Tasks == 1..NumTasks
\* The priorities tasks are created with: TaskPriority.HIGH, MEDIUM.
Priorities == {2, 3}
TaskTypes == {"email"}

\* =========================================================================
\* brain/planner.py
\* =========================================================================

\* Task.__lt__ : lower priority value = higher importance; nothing else
\* takes part in the comparison. pr maps each task to its priority value.
Less(pr, a, b) == pr[a] < pr[b]

\* heapq._siftdown(heap, startpos, pos), with newitem = the item moved up.
RECURSIVE SiftDown(_, _, _, _, _)
SiftDown(pr, heap, startpos, pos, newitem) ==
    IF pos > startpos /\ Less(pr, newitem, heap[pos \div 2])
    THEN SiftDown(pr, [heap EXCEPT ![pos] = heap[pos \div 2]], startpos,
                  pos \div 2, newitem)
    ELSE [heap EXCEPT ![pos] = newitem]

\* heapq._siftup(heap, pos): bubble the smaller child up to a leaf, then
\* sift the displaced item down from there.
RECURSIVE SiftUpFrom(_, _, _, _, _)
SiftUpFrom(pr, heap, startpos, pos, newitem) ==
    LET childpos == 2 * pos
        rightpos == childpos + 1
        c == IF rightpos <= Len(heap) /\ ~Less(pr, heap[childpos], heap[rightpos])
             THEN rightpos ELSE childpos
    IN  IF childpos <= Len(heap)
        THEN SiftUpFrom(pr, [heap EXCEPT ![pos] = heap[c]], startpos, c, newitem)
        ELSE SiftDown(pr, heap, startpos, pos, newitem)

\* heapq.heappush(heap, item)
HeapPush(pr, heap, item) ==
    SiftDown(pr, Append(heap, item), 1, Len(heap) + 1, item)

\* heapq.heappop(heap), for a non-empty heap: the heap that is left.
HeapPopRest(pr, heap) ==
    LET lastelt == heap[Len(heap)]
        rest == SubSeq(heap, 1, Len(heap) - 1)
    IN  IF rest = <<>> THEN rest
        ELSE SiftUpFrom(pr, [rest EXCEPT ![1] = lastelt], 1, 1, lastelt)

\* The `task.attempts >= task.max_attempts` test of get_next_task.
ExhaustedOffByOne(t) == attempts[t] > MaxAttempts
Exhausted(t) == attempts[t] >= MaxAttempts

\* get_next_task's loop: pop until a task under its retry budget shows up.
\* Result: the queue left, the task returned (a set: empty for None), the
\* tasks dropped on the way.
RECURSIVE PopLoop(_, _)
PopLoop(heap, droppedSoFar) ==
    IF heap = <<>>
    THEN [queue |-> heap, task |-> {}, dropped |-> droppedSoFar]
    ELSE IF Exhausted(heap[1])
         THEN PopLoop(HeapPopRest(priority, heap), droppedSoFar \cup {heap[1]})
         ELSE [queue |-> HeapPopRest(priority, heap), task |-> {heap[1]},
               dropped |-> droppedSoFar]

InQueue(t) == \E i \in 1..Len(task_queue) : task_queue[i] = t
Held(t) == t <= created /\ ~InQueue(t)

Without(seq, S) == SelectSeq(seq, LAMBDA x : x \notin S)

SchedInit ==
    /\ task_queue = <<>>
    /\ created = 0
    /\ priority = [t \in Tasks |-> 0]
    /\ task_type = [t \in Tasks |-> None]
    /\ attempts = [t \in Tasks |-> 0]
    /\ status = [t \in Tasks |-> None]
    /\ completed_today = 0
    /\ task_handlers = {}
    /\ sched_ret = [op |-> "init", task |-> {}, result |-> FALSE, dropped |-> {},
                    outcome |-> None]
    /\ added_order = <<>>

\* register_handler(task_type, handler)
RegisterHandler(ty) ==
    /\ ty \notin task_handlers
    /\ task_handlers' = task_handlers \cup {ty}
    /\ sched_ret' = [op |-> "register_handler", task |-> {}, result |-> FALSE,
                     dropped |-> {}, outcome |-> None]
    /\ UNCHANGED <<task_queue, created, priority, task_type, attempts, status,
                   completed_today, added_order>>

\* Task(...) followed by add_task(task): a newly constructed task is pushed.
AddNewTask(p, ty) ==
    /\ created < NumTasks
    /\ LET t == created + 1 IN
        /\ created' = t
        /\ priority' = [priority EXCEPT ![t] = p]
        /\ task_type' = [task_type EXCEPT ![t] = ty]
        /\ attempts' = [attempts EXCEPT ![t] = 0]
        /\ status' = [status EXCEPT ![t] = "pending"]
        /\ task_queue' = HeapPush(priority', task_queue, t)
        /\ added_order' = Append(added_order, t)
        /\ sched_ret' = [op |-> "add_task", task |-> {t}, result |-> FALSE,
                         dropped |-> {}, outcome |-> None]
    /\ UNCHANGED <<completed_today, task_handlers>>

\* add_task(task) called again by a caller for a task whose handler raised
\* and that execute_task did not put back itself (a caller-side retry).
ReAddTask(t) ==
    /\ Held(t)
    /\ status[t] = "error"
    /\ task_queue' = HeapPush(priority, task_queue, t)
    /\ added_order' = Append(added_order, t)
    /\ sched_ret' = [op |-> "add_task", task |-> {t}, result |-> FALSE,
                     dropped |-> {}, outcome |-> None]
    /\ UNCHANGED <<created, priority, task_type, attempts, status,
                   completed_today, task_handlers>>

\* get_next_task()
GetNextTask ==
    LET r == PopLoop(task_queue, {}) IN
    /\ task_queue' = r.queue
    /\ added_order' = Without(added_order, r.dropped \cup r.task)
    /\ sched_ret' = [op |-> "get_next_task", task |-> r.task, result |-> FALSE,
                     dropped |-> r.dropped, outcome |-> None]
    /\ UNCHANGED <<created, priority, task_type, attempts, status,
                   completed_today, task_handlers>>

\* `handler = self.task_handlers.get(task.task_type)` ... `if not handler`
HasHandlerAlways(ty) == TRUE
HasHandler(ty) == ty \in task_handlers

\* `if task.attempts < task.max_attempts` in the except clause
RetryLeftOffByOne(n) == n <= MaxAttempts
RetryLeft(n) == n < MaxAttempts

\* What execute_task returns; outcome is None when no handler was called.
ExecRet(t, result, outcome) ==
    [op |-> "execute_task", task |-> {t}, result |-> result, dropped |-> {},
     outcome |-> outcome]

\* execute_task(task) on the task get_next_task just returned, as run_schedule
\* calls it; outcome is what the handler does: "true", "false" (a falsy
\* result) or "raise".
ExecuteTask(t, outcome) ==
    /\ sched_ret.op = "get_next_task"
    /\ t \in sched_ret.task
    /\ attempts' = [attempts EXCEPT ![t] = @ + 1]
    /\ IF ~HasHandler(task_type[t])
       THEN /\ status' = [status EXCEPT ![t] = "skipped"]
            /\ sched_ret' = ExecRet(t, FALSE, None)
            /\ UNCHANGED <<task_queue, added_order, completed_today>>
       ELSE CASE outcome = "true" ->
                 /\ status' = [status EXCEPT ![t] = "completed"]
                 /\ completed_today' = completed_today + 1
                 /\ sched_ret' = ExecRet(t, TRUE, outcome)
                 /\ UNCHANGED <<task_queue, added_order>>
              [] outcome = "false" ->
                 /\ status' = [status EXCEPT ![t] = "failed"]
                 /\ sched_ret' = ExecRet(t, FALSE, outcome)
                 /\ UNCHANGED <<task_queue, added_order, completed_today>>
              [] OTHER ->
                 /\ status' = [status EXCEPT ![t] = "error"]
                 /\ IF RetryLeft(attempts'[t])
                    THEN /\ task_queue' = HeapPush(priority, task_queue, t)
                         /\ added_order' = Append(added_order, t)
                    ELSE UNCHANGED <<task_queue, added_order>>
                 /\ sched_ret' = ExecRet(t, FALSE, outcome)
                 /\ UNCHANGED completed_today
    /\ UNCHANGED <<created, priority, task_type, task_handlers>>

HandlerOutcomes == {"true", "false", "raise"}

Next ==
    \/ \E ty \in TaskTypes : RegisterHandler(ty) /\ UNCHANGED <<govVars, ledgerVars, workerVars, learnVars, logVars, planVars, threatVars, serviceVars>>
    \/ \E p \in Priorities, ty \in TaskTypes :
           AddNewTask(p, ty) /\ UNCHANGED <<govVars, ledgerVars, workerVars, learnVars, logVars, planVars, threatVars, serviceVars>>
    \/ \E t \in Tasks : ReAddTask(t) /\ UNCHANGED <<govVars, ledgerVars, workerVars, learnVars, logVars, planVars, threatVars, serviceVars>>
    \/ GetNextTask /\ UNCHANGED <<govVars, ledgerVars, workerVars, learnVars, logVars, planVars, threatVars, serviceVars>>
    \/ \E t \in Tasks, o \in HandlerOutcomes :
           ExecuteTask(t, o) /\ UNCHANGED <<govVars, ledgerVars, workerVars, learnVars, logVars, planVars, threatVars, serviceVars>>

\* =========================================================================
\* brain/instincts.py
\* =========================================================================

Platforms == {"x"}
PlatformArgs == Platforms \cup {None}
GovActions == {"login", "post"}
\* The actions should_proceed is called with.
CheckedActions == {"login"}
\* should_proceed("apply", None), the call of the job-application path.
ApplyActions == {"apply"}

Hour == WindowHours * TicksPerHour
Day == BlockHours * TicksPerHour
\* What one clock advance adds: a tick, or a day less a tick.
ClockSteps == {1, Day - 1}

\* `"login" in action.lower()`
IsLoginAction(a) == a \in {"login"}

\* key = f"{action}_{platform or 'global'}"
RateKey(a, p) == <<a, IF p = None THEN "global" ELSE p>>
RateKeys == {RateKey(a, p) : a \in GovActions \cup ApplyActions, p \in PlatformArgs}

\* limits.get(action, 60)
RateLimit(a) ==
    CASE a = "login" -> LoginLimit
      [] a = "post" -> PostLimit
      [] a = "apply" -> ApplyLimit
      [] a = "message" -> MessageLimit
      [] a = "follow" -> FollowLimit
      [] OTHER -> DefaultLimit

\* `datetime.utcnow() < unblock_time`
BlockActive(unblock_time, t) == t < unblock_time

\* `now - ts < timedelta(hours=1)`
InWindow(ts, t) == t - ts < Hour

\* `len(self.action_timestamps[key]) >= limit`
OverLimitStrict(count, limit) == count > limit
OverLimit(count, limit) == count >= limit

\* block_platform(platform, hours=24): unblock_time = utcnow() + 24 h
AutoBlockUntilHour(t) == t + Hour
AutoBlockUntil(t) == t + Day

DropKey(f, k) == [q \in DOMAIN f \ {k} |-> f[q]]
PutKey(f, k, v) == [q \in DOMAIN f \cup {k} |-> IF q = k THEN v ELSE f[q]]

GovConstructed ==
    /\ blocked_platforms = <<>>
    /\ failed_logins = [p \in Platforms |-> 0]
    /\ api_calls_today = 0
    /\ money_spent_today = 0
    /\ action_timestamps = [k \in RateKeys |-> <<>>]
    /\ now = 0
    /\ advances = 0
    /\ gov_ret = [op |-> "init", action |-> None, platform |-> None,
                  allow |-> FALSE, reason |-> None]
    /\ failure_streak = [p \in Platforms |-> 0]
    /\ third_failure_at = [p \in Platforms |-> {}]
    /\ auto_block = [p \in Platforms |-> "no"]

\* gov_ret after a call that returns nothing.
GovOther == [op |-> "other", action |-> None, platform |-> None,
             allow |-> FALSE, reason |-> None]

GovRet(op, a, p, allow, reason) ==
    [op |-> op, action |-> a, platform |-> p, allow |-> allow, reason |-> reason]

\* should_proceed(action, platform), _check_rate_limit included.
ShouldProceed(a, p) ==
    LET hasBlock == p # None /\ p \in DOMAIN blocked_platforms
        blocked == hasBlock /\ BlockActive(blocked_platforms[p], now)
        \* an expired block is deleted on the way
        blocksAfter == IF hasBlock /\ ~blocked
                       THEN DropKey(blocked_platforms, p)
                       ELSE blocked_platforms
        key == RateKey(a, p)
        pruned == SelectSeq(action_timestamps[key], LAMBDA ts : InWindow(ts, now))
    IN
    /\ blocked_platforms' = blocksAfter
    /\ IF blocked
       THEN /\ gov_ret' = GovRet("should_proceed", a, p, FALSE, "blocked")
            /\ UNCHANGED action_timestamps
       ELSE IF p # None /\ failed_logins[p] >= MaxFailedLogins
       THEN /\ gov_ret' = GovRet("should_proceed", a, p, FALSE, "failed_logins")
            /\ UNCHANGED action_timestamps
       ELSE IF api_calls_today >= MaxDailyApiCalls
       THEN /\ gov_ret' = GovRet("should_proceed", a, p, FALSE, "api_limit")
            /\ UNCHANGED action_timestamps
       ELSE IF money_spent_today >= MaxDailySpend
       THEN /\ gov_ret' = GovRet("should_proceed", a, p, FALSE, "spend_limit")
            /\ UNCHANGED action_timestamps
       ELSE IF OverLimit(Len(pruned), RateLimit(a))
       THEN /\ gov_ret' = GovRet("should_proceed", a, p, FALSE, "rate_limited")
            /\ action_timestamps' = [action_timestamps EXCEPT ![key] = pruned]
       ELSE /\ gov_ret' = GovRet("should_proceed", a, p, TRUE, "proceed")
            /\ action_timestamps' =
                   [action_timestamps EXCEPT ![key] = Append(pruned, now)]
    /\ UNCHANGED <<failed_logins, api_calls_today, money_spent_today, now,
                   advances, failure_streak, third_failure_at, auto_block>>

\* record_failure(action, platform, reason), block_platform included.
RecordFailure(a, p) ==
    /\ p # None => failed_logins[p] < MaxFailedLogins + ExtraFailures
    /\ IF p # None /\ IsLoginAction(a)
       THEN /\ failed_logins' = [failed_logins EXCEPT ![p] = @ + 1]
            /\ blocked_platforms' =
                   IF failed_logins'[p] >= MaxFailedLogins
                   THEN PutKey(blocked_platforms, p, AutoBlockUntil(now))
                   ELSE blocked_platforms
            /\ failure_streak' = [failure_streak EXCEPT ![p] = @ + 1]
            /\ IF failure_streak'[p] >= MaxFailedLogins
               THEN /\ third_failure_at' = [third_failure_at EXCEPT ![p] = {now}]
                    /\ auto_block' = [auto_block EXCEPT ![p] = "blocked"]
               ELSE UNCHANGED <<third_failure_at, auto_block>>
       ELSE UNCHANGED <<failed_logins, blocked_platforms, failure_streak,
                        third_failure_at, auto_block>>
    /\ gov_ret' = GovOther
    /\ UNCHANGED <<api_calls_today, money_spent_today, action_timestamps, now,
                   advances>>

\* record_success(action, platform)
RecordSuccess(a, p) ==
    /\ IF p # None /\ IsLoginAction(a)
       THEN /\ failed_logins' = [failed_logins EXCEPT ![p] = 0]
            /\ failure_streak' = [failure_streak EXCEPT ![p] = 0]
       ELSE UNCHANGED <<failed_logins, failure_streak>>
    /\ gov_ret' = GovOther
    /\ UNCHANGED <<blocked_platforms, api_calls_today, money_spent_today,
                   action_timestamps, now, advances, third_failure_at,
                   auto_block>>

\* unblock_platform(platform)
UnblockPlatform(p) ==
    /\ blocked_platforms' = IF p \in DOMAIN blocked_platforms
                            THEN DropKey(blocked_platforms, p)
                            ELSE blocked_platforms
    /\ third_failure_at' = [third_failure_at EXCEPT ![p] = {}]
    /\ auto_block' = [auto_block EXCEPT
                        ![p] = IF @ = "no" THEN "no" ELSE "unblocked"]
    /\ gov_ret' = GovOther
    /\ UNCHANGED <<failed_logins, api_calls_today, money_spent_today,
                   action_timestamps, now, advances, failure_streak>>

\* record_api_call(), n times in a row.
RecordApiCalls(n) ==
    /\ api_calls_today + n <= MaxDailyApiCalls
    /\ api_calls_today' = api_calls_today + n
    /\ gov_ret' = GovOther
    /\ UNCHANGED <<blocked_platforms, failed_logins, money_spent_today,
                   action_timestamps, now, advances, failure_streak,
                   third_failure_at, auto_block>>

\* record_spending(amount)
RecordSpending(amount) ==
    /\ money_spent_today < MaxDailySpend
    /\ money_spent_today' = money_spent_today + amount
    /\ gov_ret' = GovOther
    /\ UNCHANGED <<blocked_platforms, failed_logins, api_calls_today,
                   action_timestamps, now, advances, failure_streak,
                   third_failure_at, auto_block>>

\* Time passes between two calls.
AdvanceClock(d) ==
    /\ advances < MaxAdvances
    /\ now' = now + d
    /\ advances' = advances + 1
    /\ gov_ret' = GovOther
    /\ UNCHANGED <<blocked_platforms, failed_logins, api_calls_today,
                   money_spent_today, action_timestamps, failure_streak,
                   third_failure_at, auto_block>>

GovNext ==
    \/ \E a \in CheckedActions, p \in PlatformArgs :
           ShouldProceed(a, p) /\ UNCHANGED <<schedVars, ledgerVars, workerVars, learnVars, logVars, planVars, threatVars, serviceVars>>
    \/ \E a \in GovActions, p \in PlatformArgs :
           RecordFailure(a, p) /\ UNCHANGED <<schedVars, ledgerVars, workerVars, learnVars, logVars, planVars, threatVars, serviceVars>>
    \/ \E a \in GovActions, p \in PlatformArgs :
           RecordSuccess(a, p) /\ UNCHANGED <<schedVars, ledgerVars, workerVars, learnVars, logVars, planVars, threatVars, serviceVars>>
    \/ \E p \in Platforms : UnblockPlatform(p) /\ UNCHANGED <<schedVars, ledgerVars, workerVars, learnVars, logVars, planVars, threatVars, serviceVars>>
    \/ \E n \in {MaxDailyApiCalls} : RecordApiCalls(n) /\ UNCHANGED <<schedVars, ledgerVars, workerVars, learnVars, logVars, planVars, threatVars, serviceVars>>
    \/ \E amount \in {MaxDailySpend} :
           RecordSpending(amount) /\ UNCHANGED <<schedVars, ledgerVars, workerVars, learnVars, logVars, planVars, threatVars, serviceVars>>
    \/ \E d \in ClockSteps : AdvanceClock(d) /\ UNCHANGED <<schedVars, ledgerVars, workerVars, learnVars, logVars, planVars, threatVars, serviceVars>>

\* ------------------------------------------- threats and the daily reset

\* An event text is modelled by the set of keywords its lower-cased text
\* contains (`word in event_lower`).
SuspensionWords == {"banned", "suspended", "terminated", "locked"}
CaptchaWords == {"captcha"}
RateLimitWords == {"rate limit", "too many requests", "slow down"}
AuthFailureWords == {"wrong password", "invalid credentials", "login failed"}
ChallengeWords == {"verify", "confirm identity", "2fa", "verification"}
BreachWords == {"unauthorized", "fraud", "suspicious"}

\* `any(word in event_lower for word in [...])`
AnyWord(event, words) == event \cap words # {}

\* The events detect_threat is called with beside the daily reset: a text
\* with "captcha" in it and a text with no keyword.
ThreatEvents == {{"captcha"}, {}}

\* The texts made of one keyword of each list, in every combination.
KeywordPool == {"banned", "captcha", "rate limit", "login failed", "verify",
                "fraud"}
EventTexts == SUBSET KeywordPool

\* detect_threat: the if / elif chain, first match wins.
ThreatType(event) ==
    IF AnyWord(event, SuspensionWords) THEN "account_suspended"
    ELSE IF AnyWord(event, CaptchaWords) THEN "captcha_challenge"
    ELSE IF AnyWord(event, RateLimitWords) THEN "rate_limited"
    ELSE IF AnyWord(event, AuthFailureWords) THEN "auth_failure"
    ELSE IF AnyWord(event, ChallengeWords) THEN "security_challenge"
    ELSE IF AnyWord(event, BreachWords) THEN "security_breach"
    ELSE None

ThreatLevel(ty) ==
    CASE ty = "account_suspended" -> "HIGH"
      [] ty \in {"captcha_challenge", "rate_limited", "security_challenge"} -> "MEDIUM"
      [] ty = "auth_failure" -> "LOW"
      [] ty = "security_breach" -> "CRITICAL"
      [] OTHER -> "NONE"

\* seq[-n:]
LastN(seq, n) ==
    IF Len(seq) <= n THEN seq ELSE SubSeq(seq, Len(seq) - n + 1, Len(seq))

ThreatsConstructed ==
    /\ current_threats = <<>>
    /\ threat_history = <<>>
    /\ last_reset_day = -1
    /\ threat_ret = [op |-> "init", event |-> {}, level |-> "NONE"]

\* detect_threat(event), _record_threat included.
DetectThreat(event) ==
    LET ty == ThreatType(event)
        threat == [type |-> ty, level |-> ThreatLevel(ty), timestamp |-> now]
    IN
    /\ Len(threat_history) < MaxThreats
    /\ IF ThreatLevel(ty) # "NONE"
       THEN /\ current_threats' = Append(current_threats, threat)
            /\ threat_history' = LastN(Append(threat_history, threat), HistoryKept)
       ELSE UNCHANGED <<current_threats, threat_history>>
    /\ threat_ret' = [op |-> "detect_threat", event |-> event,
                      level |-> ThreatLevel(ty)]
    /\ gov_ret' = GovOther
    /\ UNCHANGED <<blocked_platforms, failed_logins, api_calls_today,
                   money_spent_today, action_timestamps, now, advances,
                   failure_streak, third_failure_at, auto_block, last_reset_day>>

\* daily_reset()
DailyReset ==
    /\ api_calls_today' = 0
    /\ money_spent_today' = 0
    /\ current_threats' = <<>>
    /\ last_reset_day' = now \div Day
    /\ gov_ret' = GovRet("daily_reset", None, None, FALSE, None)
    /\ UNCHANGED <<blocked_platforms, failed_logins, action_timestamps, now,
                   advances, failure_streak, third_failure_at, auto_block,
                   threat_history, threat_ret>>

ResetOthers == <<schedVars, ledgerVars, workerVars, learnVars, logVars, planVars, serviceVars>>

\* The daily counters, the threats and their reset.
ResetNext ==
    \/ \E n \in {MaxDailyApiCalls} : RecordApiCalls(n) /\ UNCHANGED <<ResetOthers, threatVars>>
    \/ \E amount \in {MaxDailySpend} :
           RecordSpending(amount) /\ UNCHANGED <<ResetOthers, threatVars>>
    \/ \E event \in ThreatEvents : DetectThreat(event) /\ UNCHANGED ResetOthers
    \/ DailyReset /\ UNCHANGED ResetOthers
    \/ \E d \in ClockSteps : AdvanceClock(d) /\ UNCHANGED <<ResetOthers, threatVars>>

\* detect_threat called with every text.
ClassifyNext ==
    \E event \in EventTexts : DetectThreat(event) /\ UNCHANGED ResetOthers

\* A governor that is only asked about job applications, while time passes.
ApplyNext ==
    \/ \E a \in ApplyActions :
           ShouldProceed(a, None) /\ UNCHANGED <<schedVars, ledgerVars, workerVars, learnVars, logVars, planVars, threatVars, serviceVars>>
    \/ \E d \in ClockSteps : AdvanceClock(d) /\ UNCHANGED <<schedVars, ledgerVars, workerVars, learnVars, logVars, planVars, threatVars, serviceVars>>

\* =========================================================================
\* main.py, income/smart_income.py, income/job_machine.py : ledgers
\* =========================================================================

\* One ledger per namespace: the replied e-mail ids (_check_emails), the
\* registered forums (_join_tech_forums) and the applied job URLs
\* (applications_history, written by job_machine.apply_single).
Namespaces == {"replied_emails", "registered_forums", "job_applications"}
Keys == {"k1", "k2"}

\* Whether the worker skips a key its in-memory ledger holds, before acting:
\* `if email_id in replied_ids: continue`, `if forum_name in
\* already_registered: continue`; smart_mass_apply has no such test.
SkipsRecorded(ns) == ns \in {"replied_emails", "registered_forums"}

\* A file holding the JSON list of `keys`, and the file as open(file, 'w')
\* leaves it before anything is written.
FileOf(keys) == [ok |-> TRUE, keys |-> keys]
Truncated == [ok |-> FALSE, keys |-> {}]

\* The load at start-up: json.load of the file, or the empty set when the
\* file does not parse (`except: replied_ids = set()`).
LoadLedger(f) == IF f.ok THEN f.keys ELSE {}

\* json.dump(list(replied_ids), f) and the close of the file.
Dumped(old, keys) == FileOf(keys)

LedgerConstructed ==
    /\ ledger_set = [ns \in Namespaces |-> {}]
    /\ ledger_file = [ns \in Namespaces |-> FileOf({})]
    /\ writing = <<>>
    /\ acted = [ns \in Namespaces |-> [k \in Keys |-> 0]]
    /\ marked = [ns \in Namespaces |-> {}]
    /\ led_ret = [op |-> "init", ns |-> None, key |-> None]

\* The external action for key k succeeds (email_client.reply,
\* smart_registrar.register, a verified job application) and the key is
\* added to the in-memory ledger.
ActAndAdd(ns, k) ==
    /\ writing = <<>>
    /\ SkipsRecorded(ns) => k \notin ledger_set[ns]
    /\ acted[ns][k] < MaxActs
    /\ acted' = [acted EXCEPT ![ns][k] = @ + 1]
    /\ ledger_set' = [ledger_set EXCEPT ![ns] = @ \cup {k}]
    /\ writing' = <<ns, k, "added">>
    /\ led_ret' = [op |-> "act", ns |-> ns, key |-> k]
    /\ UNCHANGED <<ledger_file, marked>>

\* open(file, 'w'): the file is truncated.
OpenForWrite ==
    /\ writing # <<>>
    /\ writing[3] = "added"
    /\ ledger_file' = [ledger_file EXCEPT ![writing[1]] = Truncated]
    /\ writing' = <<writing[1], writing[2], "opened">>
    /\ led_ret' = [op |-> "open", ns |-> writing[1], key |-> writing[2]]
    /\ UNCHANGED <<ledger_set, acted, marked>>

\* json.dump(...) and the end of the `with` block: the mark is complete.
DumpAndClose ==
    /\ writing # <<>>
    /\ writing[3] = "opened"
    /\ ledger_file' = [ledger_file EXCEPT
                         ![writing[1]] = Dumped(@, ledger_set[writing[1]])]
    /\ marked' = [marked EXCEPT ![writing[1]] = @ \cup {writing[2]}]
    /\ writing' = <<>>
    /\ led_ret' = [op |-> "dump", ns |-> writing[1], key |-> writing[2]]
    /\ UNCHANGED <<ledger_set, acted>>

\* The process stops, wherever it is, and is started again: every ledger is
\* loaded from its file.
Restart ==
    /\ ledger_set' = [ns \in Namespaces |-> LoadLedger(ledger_file[ns])]
    /\ writing' = <<>>
    /\ led_ret' = [op |-> "restart", ns |-> None, key |-> None]
    /\ UNCHANGED <<ledger_file, acted, marked>>

LedgerNext ==
    \/ \E ns \in Namespaces, k \in Keys :
           ActAndAdd(ns, k) /\ UNCHANGED <<schedVars, govVars, workerVars, learnVars, logVars, planVars, threatVars, serviceVars>>
    \/ OpenForWrite /\ UNCHANGED <<schedVars, govVars, workerVars, learnVars, logVars, planVars, threatVars, serviceVars>>
    \/ DumpAndClose /\ UNCHANGED <<schedVars, govVars, workerVars, learnVars, logVars, planVars, threatVars, serviceVars>>
    \/ Restart /\ UNCHANGED <<schedVars, govVars, workerVars, learnVars, logVars, planVars, threatVars, serviceVars>>

\* =========================================================================
\* main.py : worker loops, work_loop, run_forever, main
\* =========================================================================

\* Three of the loops wake_up starts with asyncio.create_task.  _apply_forever
\* and _trade_crypto forward an exception of their body to _handle_error;
\* _watch_news swallows it (`except: pass`).
Workers == {"_apply_forever", "_trade_crypto", "_watch_news"}
Loops == Workers \cup {"work_loop"}
Forwards(w) == w \in {"_apply_forever", "_trade_crypto"}

\* What a call that reaches external services can do: return or raise.
CallOutcomes == {"ok", "raise"}

\* The outcome of a loop's body: the try block of a faulty loop raises.
BodyOutcome(l) == IF l \in faulty THEN "raise" ELSE "ok"

\* What an exception that ends a worker's task does to main(): nothing, the
\* task was started with create_task and is never awaited.
TaskDeathStopsMain(mp) == IF mp \in {"top", "handling", "sleep"} THEN "raised" ELSE mp
TaskDeath(mp) == mp

NextCount(n) == (n + 1) % (MaxIter + 1)

WorkersConstructed ==
    /\ running = FALSE
    /\ main_pc = "constructed"
    /\ worker_pc = [w \in Workers |-> "unborn"]
    /\ completed = [w \in Workers |-> 0]
    /\ faulty = {}
    /\ learn_pc = "unborn"
    /\ topic = 0

\* run_forever up to the call of work_loop: wake_up sets running and creates
\* the worker tasks.  Which loops will find their services failing is the
\* environment's choice, fixed for the run.
WakeUp ==
    /\ main_pc = "constructed"
    /\ running' = TRUE
    /\ worker_pc' = [w \in Workers |-> "top"]
    /\ main_pc' = "top"
    /\ faulty' \in SUBSET Loops
    /\ learn_pc' = "top"
    /\ UNCHANGED <<completed, topic>>

\* `while self.running:` and the try block of a worker.  An exception goes
\* to the except clause, which awaits _handle_error or passes.
WorkerIteration(w) ==
    /\ worker_pc[w] = "top"
    /\ main_pc # "exited"
    /\ worker_pc' = [worker_pc EXCEPT ![w] =
                        IF ~running THEN "returned"
                        ELSE IF BodyOutcome(w) = "ok" THEN "sleep"
                        ELSE IF Forwards(w) THEN "handling"
                        ELSE "sleep"]
    /\ UNCHANGED <<running, main_pc, completed, faulty>>

\* `await self._handle_error(str(e))` inside the except clause of a worker:
\* learn_from_error calls browser.goto, which re-raises navigation errors.
\* Nothing encloses the except clause, so the exception ends the task.
WorkerHandleError(w, outcome) ==
    /\ worker_pc[w] = "handling"
    /\ main_pc # "exited"
    /\ worker_pc' = [worker_pc EXCEPT ![w] =
                        IF outcome = "ok" THEN "sleep" ELSE "dead"]
    /\ main_pc' = IF outcome = "ok" THEN main_pc ELSE TaskDeath(main_pc)
    /\ UNCHANGED <<running, completed, faulty>>

\* `await asyncio.sleep(cadence)` at the end of the loop body: the iteration
\* is complete and the worker is back at the loop condition.
WorkerSleep(w) ==
    /\ worker_pc[w] = "sleep"
    /\ main_pc # "exited"
    /\ worker_pc' = [worker_pc EXCEPT ![w] = "top"]
    /\ completed' = [completed EXCEPT ![w] = NextCount(@)]
    /\ UNCHANGED <<running, main_pc, faulty>>

\* `while self.running:` and the try block of work_loop.
WorkLoopIteration ==
    /\ main_pc = "top"
    /\ main_pc' = IF ~running THEN "returned"
                  ELSE IF BodyOutcome("work_loop") = "ok" THEN "sleep"
                  ELSE "handling"
    /\ UNCHANGED <<running, worker_pc, completed, faulty>>

\* `await self._handle_error(str(e))` in work_loop's except clause: an
\* exception leaves work_loop and run_forever.
WorkLoopHandleError(outcome) ==
    /\ main_pc = "handling"
    /\ main_pc' = IF outcome = "ok" THEN "sleep" ELSE "raised"
    /\ UNCHANGED <<running, worker_pc, completed, faulty>>

\* `await asyncio.sleep(1)` at the end of work_loop's body.
WorkLoopSleep ==
    /\ main_pc = "sleep"
    /\ main_pc' = "top"
    /\ UNCHANGED <<running, worker_pc, completed, faulty>>

\* main(): `finally: await j.shutdown()`, reached when run_forever returned
\* or raised.  shutdown sets running to False and then awaits the closing
\* of the browser and the bot.
Shutdown ==
    /\ main_pc \in {"raised", "returned"}
    /\ running' = FALSE
    /\ main_pc' = "shutdown"
    /\ UNCHANGED <<worker_pc, completed, faulty>>

\* main() ends and asyncio.run cancels the tasks that are left.
ProcessExit ==
    /\ main_pc = "shutdown"
    /\ main_pc' = "exited"
    /\ worker_pc' = [w \in Workers |->
                        IF worker_pc[w] \in {"dead", "returned"}
                        THEN worker_pc[w] ELSE "cancelled"]
    /\ learn_pc' = IF learn_pc \in {"dead", "returned"}
                   THEN learn_pc ELSE "cancelled"
    /\ UNCHANGED <<running, completed, faulty, topic>>

OtherVars == <<schedVars, govVars, ledgerVars, logVars, planVars, threatVars, serviceVars>>

WorkerNext ==
    \/ WakeUp /\ UNCHANGED OtherVars
    \/ \E w \in Workers : WorkerIteration(w) /\ UNCHANGED <<OtherVars, learnVars>>
    \/ \E w \in Workers, o \in CallOutcomes :
           WorkerHandleError(w, o) /\ UNCHANGED <<OtherVars, learnVars>>
    \/ \E w \in Workers : WorkerSleep(w) /\ UNCHANGED <<OtherVars, learnVars>>
    \/ WorkLoopIteration /\ UNCHANGED <<OtherVars, learnVars>>
    \/ \E o \in CallOutcomes :
           WorkLoopHandleError(o) /\ UNCHANGED <<OtherVars, learnVars>>
    \/ WorkLoopSleep /\ UNCHANGED <<OtherVars, learnVars>>
    \/ Shutdown /\ UNCHANGED <<OtherVars, learnVars>>
    \/ ProcessExit /\ UNCHANGED OtherVars

\* The steps of one worker task, and of main() inside work_loop.
WorkerStep(w) ==
    /\ \/ WorkerIteration(w)
       \/ \E o \in CallOutcomes : WorkerHandleError(w, o)
       \/ WorkerSleep(w)
    /\ UNCHANGED <<OtherVars, learnVars>>

WorkLoopStep ==
    /\ \/ WorkLoopIteration
       \/ \E o \in CallOutcomes : WorkLoopHandleError(o)
       \/ WorkLoopSleep
    /\ UNCHANGED <<OtherVars, learnVars>>

\* The event loop runs every task that is ready, and every sleep ends.
WorkerFairness ==
    /\ \A w \in Workers : WF_vars(WorkerStep(w))
    /\ WF_vars(WorkLoopStep)

\* ------------------------------------------- _handle_error, report_problem
\* The messages _handle_error sends to the owner, observed beside the steps
\* of the loops.

NotifyConstructed == notify_streak = [l \in Loops |-> 0]

\* _handle_error ran to its last line, bestie.report_problem(error[:100]):
\* one more iteration of loop l in a row has told the owner.
Reported(l) ==
    [notify_streak EXCEPT ![l] = IF @ < MaxStreak THEN @ + 1 ELSE @]
\* An iteration of loop l that reaches its sleep without _handle_error.
Unreported(l) == [notify_streak EXCEPT ![l] = 0]

NotifyOthers == <<schedVars, govVars, ledgerVars, logVars, planVars,
                  threatVars, goalVars, crmVars, limiterVars, runVars,
    recurVars, askVars>>

NotifyNext ==
    \/ WakeUp /\ UNCHANGED <<NotifyOthers, notifyVars>>
    \/ \E w \in Workers :
           /\ WorkerIteration(w)
           /\ notify_streak' = IF running /\ worker_pc'[w] = "sleep"
                               THEN Unreported(w) ELSE notify_streak
           /\ UNCHANGED <<NotifyOthers, learnVars>>
    \/ \E w \in Workers, o \in CallOutcomes :
           /\ WorkerHandleError(w, o)
           /\ notify_streak' = IF o = "ok" THEN Reported(w) ELSE notify_streak
           /\ UNCHANGED <<NotifyOthers, learnVars>>
    \/ \E w \in Workers :
           WorkerSleep(w) /\ UNCHANGED <<NotifyOthers, learnVars, notifyVars>>
    \/ /\ WorkLoopIteration
       /\ notify_streak' = IF main_pc' = "sleep"
                           THEN Unreported("work_loop") ELSE notify_streak
       /\ UNCHANGED <<NotifyOthers, learnVars>>
    \/ \E o \in CallOutcomes :
           /\ WorkLoopHandleError(o)
           /\ notify_streak' = IF o = "ok" THEN Reported("work_loop")
                               ELSE notify_streak
           /\ UNCHANGED <<NotifyOthers, learnVars>>
    \/ WorkLoopSleep /\ UNCHANGED <<NotifyOthers, learnVars, notifyVars>>
    \/ Shutdown /\ UNCHANGED <<NotifyOthers, learnVars, notifyVars>>
    \/ ProcessExit /\ UNCHANGED <<NotifyOthers, notifyVars>>

\* ------------------------------------------------------ _learn_forever
\* _learn_forever tests running once per pass over its topics: the for loop
\* goes from one topic to the next without looking at it.

\* The loop condition (at the top only) and the try block for one topic.
LearnIteration(outcome) ==
    /\ learn_pc \in {"top", "for"}
    /\ main_pc # "exited"
    /\ learn_pc' = IF learn_pc = "top" /\ ~running THEN "returned"
                   ELSE IF outcome = "ok" THEN "sleep"
                   ELSE "handling"
    /\ UNCHANGED <<topic, workerVars>>

\* `await self._handle_error(str(e))` in _learn_forever's except clause.
LearnHandleError(outcome) ==
    /\ learn_pc = "handling"
    /\ main_pc # "exited"
    /\ learn_pc' = IF outcome = "ok" THEN "sleep" ELSE "dead"
    /\ UNCHANGED <<topic, workerVars>>

\* `await asyncio.sleep(300)` after each topic; after the last topic the
\* worker is back at `while self.running`.
LearnSleep ==
    /\ learn_pc = "sleep"
    /\ main_pc # "exited"
    /\ IF topic + 1 < NumTopics
       THEN learn_pc' = "for" /\ topic' = topic + 1
       ELSE learn_pc' = "top" /\ topic' = 0
    /\ UNCHANGED workerVars

ShutdownNext ==
    \/ WorkerNext
    \/ \E o \in CallOutcomes : LearnIteration(o) /\ UNCHANGED OtherVars
    \/ \E o \in CallOutcomes : LearnHandleError(o) /\ UNCHANGED OtherVars
    \/ LearnSleep /\ UNCHANGED OtherVars

\* =========================================================================
\* brain/memory.py : ActionLog
\* =========================================================================

\* The rows the callers of log_action write (social/twitter.py,
\* income/jobs.py, ...): action_type and result.
LogRows == {[action_type |-> "social/tweet", result |-> "success"]}

LogConstructed == action_log = <<>>

\* memory.log_action(action_type, description, target, result, ...): one
\* row is added and committed.
LogAction(row) ==
    /\ Len(action_log) < MaxLog
    /\ action_log' = Append(action_log, row)

\* The scheduler together with the callers of log_action.
LogNext ==
    \/ Next
    \/ \E row \in LogRows :
           LogAction(row)
           /\ UNCHANGED <<schedVars, govVars, ledgerVars, workerVars, learnVars,
                        planVars, threatVars, serviceVars>>

\* =========================================================================
\* brain/memory.py update_goal_progress, brain/goals.py report_progress
\* =========================================================================

\* The rows of the goals table and their target_value.
GoalIds == {1, 2}
GoalTarget(g) == IF g = 1 THEN 2 ELSE 3
\* The ids report_progress is called with; no row has id 9.
ReportIds == GoalIds \cup {9}
ProgressValues == 0..MaxValue

\* add_goal: current_value defaults to 0.0, status to "active".
GoalsConstructed ==
    /\ goal_current = [g \in GoalIds |-> 0]
    /\ goal_status = [g \in GoalIds |-> "active"]
    /\ goal_ret = [op |-> "init", goal_id |-> 0, value |-> 0]

\* `if new_value >= goal.target_value: goal.status = "completed"`
StatusAfterRecomputed(old, new_value, target) ==
    IF new_value >= target THEN "completed" ELSE "active"
StatusAfter(old, new_value, target) ==
    IF new_value >= target THEN "completed" ELSE old

\* get_active_goals(): the rows with status "active"
GetActiveGoals == {g \in GoalIds : goal_status[g] = "active"}

\* report_progress(goal_id, value) = memory.update_goal_progress(goal_id, value)
ReportProgress(g, value) ==
    /\ IF g \in GoalIds
       THEN /\ goal_current' = [goal_current EXCEPT ![g] = value]
            /\ goal_status' = [goal_status EXCEPT
                                 ![g] = StatusAfter(@, value, GoalTarget(g))]
       ELSE UNCHANGED <<goal_current, goal_status>>
    /\ goal_ret' = [op |-> "report_progress", goal_id |-> g, value |-> value]

GoalOthers == <<schedVars, govVars, ledgerVars, workerVars, learnVars, logVars,
                planVars, threatVars, crmVars, limiterVars, notifyVars, runVars,
    recurVars, askVars>>

GoalNext ==
    \E g \in ReportIds, value \in ProgressValues :
        ReportProgress(g, value) /\ UNCHANGED GoalOthers

\* =========================================================================
\* main.py _send_cold_emails, brain/multitask.py ColdMailer, money/crm.py
\* =========================================================================

Leads == 1..NumLeads

CrmConstructed ==
    /\ lead_status = [l \in Leads |-> "absent"]
    /\ lead_email = [l \in Leads |-> FALSE]
    /\ sent_count = 0
    /\ delivered = {}
    /\ crm_ret = [op |-> "init", lead |-> 0, success |-> FALSE]

\* crm.add_lead(source, contact, value): the row is inserted with status
\* "new"; hasEmail tells whether contact holds an address.
AddLead(l, hasEmail) ==
    /\ lead_status[l] = "absent"
    /\ \A k \in Leads : k < l => lead_status[k] # "absent"
    /\ lead_status' = [lead_status EXCEPT ![l] = "new"]
    /\ lead_email' = [lead_email EXCEPT ![l] = hasEmail]
    /\ crm_ret' = [op |-> "add_lead", lead |-> l, success |-> FALSE]
    /\ UNCHANGED <<sent_count, delivered>>

\* crm.get_leads(status="new", ...)
NewLeads == {l \in Leads : lead_status[l] = "new"}

\* One round of the `for lead in leads` loop of _send_cold_emails:
\* send_cold_email(lead["email"], ...) returns success (it counts the mail
\* when it went out), and crm.update_lead(lead["id"], status="contacted").
ColdEmailLead(l, success) ==
    /\ l \in NewLeads
    /\ lead_email[l]
    /\ sent_count' = IF success THEN sent_count + 1 ELSE sent_count
    /\ delivered' = IF success THEN delivered \cup {l} ELSE delivered
    /\ lead_status' = [lead_status EXCEPT ![l] = "contacted"]
    /\ crm_ret' = [op |-> "cold_email", lead |-> l, success |-> success]
    /\ UNCHANGED lead_email

\* The round for a lead without an address: `if lead.get("email")` fails.
SkipLead(l) ==
    /\ l \in NewLeads
    /\ ~lead_email[l]
    /\ crm_ret' = [op |-> "skip", lead |-> l, success |-> FALSE]
    /\ UNCHANGED <<lead_status, lead_email, sent_count, delivered>>

OutreachOthers == <<schedVars, govVars, ledgerVars, workerVars, learnVars,
                    logVars, planVars, threatVars, goalVars, limiterVars,
                    notifyVars, runVars,
    recurVars, askVars>>

OutreachNext ==
    \/ \E l \in Leads, hasEmail \in BOOLEAN :
           AddLead(l, hasEmail) /\ UNCHANGED OutreachOthers
    \/ \E l \in Leads, success \in BOOLEAN :
           ColdEmailLead(l, success) /\ UNCHANGED OutreachOthers
    \/ \E l \in Leads : SkipLead(l) /\ UNCHANGED OutreachOthers

\* =========================================================================
\* infra/network.py RateLimiter
\* =========================================================================

\* The asyncio tasks that call acquire(key) on the same key.
Callers == {"a", "b", "c"}

\* RateLimiter.__init__: limits = {}, calls = {}
LimiterConstructed ==
    /\ lim_set = FALSE
    /\ lim_calls = <<>>
    /\ caller_pc = [c \in Callers |-> "idle"]
    /\ sleep_left = [c \in Callers |-> 0]

\* set_limit(key, max_calls, period_seconds)
SetLimit ==
    /\ ~lim_set
    /\ lim_set' = TRUE
    /\ lim_calls' = <<>>
    /\ UNCHANGED <<caller_pc, sleep_left>>

\* `[t for t in self.calls.get(key, []) if now - t < limit["period"]]`
FreshCalls(calls) == SelectSeq(calls, LAMBDA age : age < PeriodTicks)

\* The body of acquire(key) up to its return or its sleep.
AcquireBody(c) ==
    IF ~lim_set
    THEN /\ caller_pc' = [caller_pc EXCEPT ![c] = "returned"]
         /\ UNCHANGED <<lim_set, lim_calls, sleep_left>>
    ELSE LET fresh == FreshCalls(lim_calls) IN
         IF Len(fresh) >= LimitMax
         THEN /\ lim_calls' = fresh
              /\ caller_pc' = [caller_pc EXCEPT ![c] = "sleeping"]
              /\ sleep_left' = [sleep_left EXCEPT ![c] = PeriodTicks - fresh[1]]
              /\ UNCHANGED lim_set
         ELSE /\ lim_calls' = Append(fresh, 0)
              /\ caller_pc' = [caller_pc EXCEPT ![c] = "returned"]
              /\ UNCHANGED <<lim_set, sleep_left>>

\* A task calls acquire(key).
Acquire(c) ==
    /\ caller_pc[c] \in {"idle", "returned"}
    /\ AcquireBody(c)

\* asyncio.sleep(wait) is over: `return await self.acquire(key)`.
AcquireAgain(c) ==
    /\ caller_pc[c] = "sleeping"
    /\ sleep_left[c] = 0
    /\ AcquireBody(c)

\* One tick of time passes; a task whose sleep is over runs first.
LimiterTick ==
    /\ \A c \in Callers : caller_pc[c] = "sleeping" => sleep_left[c] > 0
    /\ lim_calls' = [i \in DOMAIN lim_calls |->
                        IF lim_calls[i] < PeriodTicks THEN lim_calls[i] + 1
                        ELSE PeriodTicks]
    /\ sleep_left' = [c \in Callers |->
                         IF caller_pc[c] = "sleeping" THEN sleep_left[c] - 1
                         ELSE sleep_left[c]]
    /\ UNCHANGED <<lim_set, caller_pc>>

LimiterOthers == <<schedVars, govVars, ledgerVars, workerVars, learnVars,
                   logVars, planVars, threatVars, goalVars, crmVars, notifyVars, runVars,
    recurVars, askVars>>

AcquireAgainStep(c) == AcquireAgain(c) /\ UNCHANGED LimiterOthers
LimiterTickStep == LimiterTick /\ UNCHANGED LimiterOthers

LimiterNext ==
    \/ SetLimit /\ UNCHANGED LimiterOthers
    \/ \E c \in Callers : Acquire(c) /\ UNCHANGED LimiterOthers
    \/ \E c \in Callers : AcquireAgainStep(c)
    \/ LimiterTickStep

\* The event loop runs a task whose sleep is over, and time passes.
LimiterFairness ==
    /\ WF_vars(LimiterTickStep)
    /\ \A c \in Callers : WF_vars(AcquireAgainStep(c))

\* =========================================================================
\* brain/goals.py get_daily_tasks, brain/planner.py plan_day
\* =========================================================================

\* Active goals as memory.get_active_goals returns them.  has_deadline is
\* `if goal.deadline`, days is what (goal.deadline - utcnow()).days gives at
\* the call.
GoalPool ==
    { [id |-> 1, category |-> "income", title |-> "Earn", target_value |-> 1000,
       current_value |-> 0, has_deadline |-> TRUE, days |-> 10, priority |-> 9],
      [id |-> 2, category |-> "income", title |-> "Earn", target_value |-> 1000000,
       current_value |-> 0, has_deadline |-> TRUE, days |-> 0, priority |-> 10],
      [id |-> 3, category |-> "social", title |-> "Twitter", target_value |-> 1000000,
       current_value |-> 0, has_deadline |-> TRUE, days |-> 400, priority |-> 8],
      [id |-> 4, category |-> "content", title |-> "Medium", target_value |-> 365,
       current_value |-> 0, has_deadline |-> TRUE, days |-> 300, priority |-> 6],
      [id |-> 5, category |-> "learning", title |-> "Master", target_value |-> 10,
       current_value |-> 12, has_deadline |-> FALSE, days |-> 0, priority |-> 7],
      [id |-> 6, category |-> "freelance", title |-> "Clients", target_value |-> 40,
       current_value |-> 0, has_deadline |-> TRUE, days |-> 300, priority |-> 8] }

\* The lists get_active_goals can return: no goal, one goal, or two goals
\* ordered by priority, highest first.
GoalLists ==
    {<<>>} \cup {<<g>> : g \in GoalPool}
    \cup {gs \in GoalPool \X GoalPool :
             gs[1].id # gs[2].id /\ gs[2].priority <= gs[1].priority}

\* int(x) of a quotient a / b with b > 0: truncation towards zero.
TruncDiv(a, b) == IF a >= 0 THEN a \div b ELSE 0 - ((0 - a) \div b)

\* int(daily_target / 100), with daily_target as get_daily_tasks computes it
\* from the remaining value and the days left.
DailyTargetHundredths(g) ==
    LET remaining == g.target_value - g.current_value IN
    IF ~g.has_deadline THEN TruncDiv(remaining, DefaultDays * 100)
    ELSE IF g.days > 0 THEN TruncDiv(remaining, g.days * 100)
    ELSE TruncDiv(remaining, 100)

Max(a, b) == IF a >= b THEN a ELSE b
Min(a, b) == IF a <= b THEN a ELSE b

TaskInfo(ty, action, target, platform, g) ==
    [type |-> ty, action |-> action, target |-> target, platform |-> platform,
     goal_id |-> g.id]

\* The task templates get_daily_tasks appends for one goal.
GoalTemplates(g) ==
    CASE g.category = "income" ->
           << TaskInfo("freelance", "apply_to_jobs",
                       Max(MinJobs, DailyTargetHundredths(g)), "", g),
              TaskInfo("trading", "check_opportunities", 1, "", g) >>
      [] g.category = "social" /\ g.title = "Twitter" ->
           << TaskInfo("social", "post", 10, "twitter", g),
              TaskInfo("social", "reply", 50, "twitter", g),
              TaskInfo("social", "follow", 100, "twitter", g) >>
      [] g.category = "content" /\ g.title = "Medium" ->
           << TaskInfo("content", "write_article", 1, "medium", g) >>
      [] g.category = "learning" ->
           << TaskInfo("learning", "study", 2, "", g) >>
      [] OTHER -> <<>>

\* goals.get_daily_tasks()
RECURSIVE GetDailyTasks(_)
GetDailyTasks(gs) ==
    IF gs = <<>> THEN <<>>
    ELSE GoalTemplates(Head(gs)) \o GetDailyTasks(Tail(gs))

\* _get_priority(task_type)
GetPriorityAllMedium(ty) == 3
GetPriority(ty) ==
    CASE ty \in {"freelance", "trading", "email"} -> 2
      [] ty \in {"content", "social"} -> 3
      [] ty = "learning" -> 4
      [] OTHER -> 3

\* range(min(target, 10)): the number of tasks made from one template
BatchSizeUncapped(target) == target
BatchSizeOneMore(target) == Min(target, BatchCap + 1)
BatchSize(target) == Min(target, BatchCap)

\* Task(name=f"{task_type}_{action}_{i}", ...) for one template
NewTask(info, i) ==
    [name |-> <<info.type, info.action, i>>, task_type |-> info.type,
     action |-> info.action, priority |-> GetPriority(info.type),
     goal_id |-> info.goal_id]

\* plan_day's loops: the tasks made from the templates, in order.
RECURSIVE PlannedTasks(_)
PlannedTasks(infos) ==
    IF infos = <<>> THEN <<>>
    ELSE [i \in 1..BatchSize(Head(infos).target) |-> NewTask(Head(infos), i - 1)]
         \o PlannedTasks(Tail(infos))

\* _add_routine_tasks(): priority HIGH, CRITICAL and LOW; goal_id 0 stands
\* for no goal (goal ids start at 1).
RoutineTasks ==
    << [name |-> <<"check_emails">>, task_type |-> "email",
        action |-> "check_inbox", priority |-> 2, goal_id |-> 0],
       [name |-> <<"check_telegram">>, task_type |-> "communication",
        action |-> "check_messages", priority |-> 1, goal_id |-> 0],
       [name |-> <<"daily_learning">>, task_type |-> "learning",
        action |-> "browse_and_learn", priority |-> 4, goal_id |-> 0] >>

\* add_task for the tasks first..last, one after the other.
RECURSIVE PushAll(_, _, _, _)
PushAll(pr, heap, first, last) ==
    LET pushed == HeapPush(pr, heap, first) IN
    IF first > last THEN heap
    ELSE IF Len(pushed) = Len(heap) + 1
         THEN PushAll(pr, pushed, first + 1, last)
         ELSE heap

PlanConstructed ==
    /\ task_plan = <<>>
    /\ plans_made = 0
    /\ plan_ret = [goals |-> <<>>, first |-> 1, last |-> 0]

\* plan_day(), called as run_schedule calls it: with an empty queue.  gs is
\* what memory.get_active_goals returns.
PlanDay(gs) ==
    LET news == PlannedTasks(GetDailyTasks(gs)) \o RoutineTasks
        first == created + 1
        last == created + Len(news)
        ids == first..last
        Ext(f, val(_)) == [t \in DOMAIN f \cup ids |->
                              IF t \in ids THEN val(t) ELSE f[t]]
        Prio(t) == news[t - created].priority
        Type(t) == news[t - created].task_type
        Zero(t) == 0
        Pending(t) == "pending"
        Plan(t) == [name |-> news[t - created].name,
                    action |-> news[t - created].action,
                    goal_id |-> news[t - created].goal_id]
    IN
    /\ plans_made < MaxPlans
    /\ task_queue = <<>>
    /\ plans_made' = plans_made + 1
    /\ created' = last
    /\ priority' = Ext(priority, Prio)
    /\ task_type' = Ext(task_type, Type)
    /\ attempts' = Ext(attempts, Zero)
    /\ status' = Ext(status, Pending)
    /\ task_plan' = Ext(task_plan, Plan)
    /\ task_queue' = PushAll(priority', task_queue, first, last)
    /\ added_order' = added_order \o [i \in 1..Len(news) |-> created + i]
    /\ sched_ret' = [op |-> "plan_day", task |-> {}, result |-> FALSE,
                     dropped |-> {}, outcome |-> None]
    /\ plan_ret' = [goals |-> gs, first |-> first, last |-> last]
    /\ UNCHANGED <<completed_today, task_handlers>>

PlanOthers == <<govVars, ledgerVars, workerVars, learnVars, logVars, threatVars, serviceVars>>

\* plan_day and the pops of the planned tasks.
PlanNext ==
    \/ \E gs \in GoalLists : PlanDay(gs) /\ UNCHANGED PlanOthers
    \/ GetNextTask /\ UNCHANGED <<PlanOthers, planVars>>

\* =========================================================================
\* brain/planner.py run_schedule
\* =========================================================================

\* The task types that get a handler before run_schedule starts.
RunHandlerTypes == {"learning", "email"}

\* What get_active_goals returns at a plan_day of the run: no goal or one.
RunGoalLists == {gs \in GoalLists : Len(gs) <= 1}

RunConstructed == run_pc = "idle"

\* register_handler(ty, handler) before the run.
RunRegister(ty) ==
    /\ run_pc = "idle"
    /\ RegisterHandler(ty)
    /\ UNCHANGED <<run_pc, planVars>>

\* run_schedule(duration_hours) is called: end_time is fixed.
RunStart ==
    /\ run_pc = "idle"
    /\ run_pc' = "top"
    /\ UNCHANGED <<schedVars, planVars>>

\* `if task:` after get_next_task: execute it, or wait and plan.
AfterGetNext(found) == IF found THEN "execute" ELSE "wait"

\* One pass of the loop head: utcnow() < end_time, task = get_next_task().
RunGetNext ==
    /\ run_pc = "top"
    /\ GetNextTask
    /\ run_pc' = AfterGetNext(sched_ret'.task # {})
    /\ UNCHANGED planVars

\* await execute_task(task); await asyncio.sleep(5)
RunExecute(t, outcome) ==
    /\ run_pc = "execute"
    /\ ExecuteTask(t, outcome)
    /\ run_pc' = "top"
    /\ UNCHANGED planVars

\* await asyncio.sleep(60); if not self.task_queue: self.plan_day()
RunReplan(gs) ==
    /\ run_pc = "wait"
    /\ IF task_queue = <<>>
       THEN PlanDay(gs)
       ELSE UNCHANGED <<schedVars, planVars>>
    /\ run_pc' = "top"

\* The loop head finds utcnow() >= end_time: run_schedule returns.
RunEnd ==
    /\ run_pc = "top"
    /\ run_pc' = "done"
    /\ UNCHANGED <<schedVars, planVars>>

RunOthers == <<govVars, ledgerVars, workerVars, learnVars, logVars, threatVars,
               goalVars, crmVars, limiterVars, notifyVars,
    recurVars, askVars>>

RunGetNextStep == RunGetNext /\ UNCHANGED RunOthers
RunExecuteStep == (\E t \in 1..created, o \in HandlerOutcomes : RunExecute(t, o))
                  /\ UNCHANGED RunOthers
RunReplanStep == (\E gs \in RunGoalLists : RunReplan(gs)) /\ UNCHANGED RunOthers

RunNext ==
    \/ \E ty \in RunHandlerTypes : RunRegister(ty) /\ UNCHANGED RunOthers
    \/ RunStart /\ UNCHANGED RunOthers
    \/ RunGetNextStep
    \/ RunExecuteStep
    \/ RunReplanStep
    \/ RunEnd /\ UNCHANGED RunOthers

\* The loop body always goes on: no await in it blocks forever.
RunFairness ==
    /\ WF_vars(RunGetNextStep)
    /\ WF_vars(RunExecuteStep)
    /\ WF_vars(RunReplanStep)

\* =========================================================================
\* brain/scheduler.py Scheduler
\* =========================================================================

\* "last_run": None
NeverRun == -1

RecurNames == {"r1", "r2"}
OneShotNames == {"t1"}
Intervals == {1, 2}
Delays == {0, 1}

RecurConstructed ==
    /\ tasks = <<>>
    /\ recurring = <<>>
    /\ runs_completed = 0
    /\ utcnow = 0
    /\ run_next_ret = [op |-> "init", ran |-> FALSE, kind |-> None,
                       name |-> None, outcome |-> None]
    /\ last_called = [n \in RecurNames |-> NeverRun]
    /\ run_calls = 0

\* self.tasks.sort(key=run_at) after an append: the stable sort puts the new
\* task behind every task whose run_at is not later.
RECURSIVE InsertByRunAt(_, _)
InsertByRunAt(ts, task) ==
    IF ts = <<>> THEN <<task>>
    ELSE IF Head(ts).run_at <= task.run_at
         THEN <<Head(ts)>> \o InsertByRunAt(Tail(ts), task)
         ELSE <<task>> \o ts

\* add(name, func, delay_seconds)
SchedulerAdd(name, delay) ==
    /\ Len(tasks) < MaxOneShots
    /\ \A i \in 1..Len(tasks) : tasks[i].name # name
    /\ tasks' = InsertByRunAt(tasks, [name |-> name, run_at |-> utcnow + delay])
    /\ run_next_ret' = [op |-> "add", ran |-> FALSE, kind |-> None,
                        name |-> name, outcome |-> None]
    /\ UNCHANGED <<recurring, runs_completed, utcnow, last_called, run_calls>>

\* add_recurring(name, func, interval_minutes); each name is added once.
AddRecurring(name, interval) ==
    /\ \A i \in 1..Len(recurring) : recurring[i].name # name
    /\ recurring' = Append(recurring, [name |-> name, interval |-> interval,
                                       last_run |-> NeverRun])
    /\ run_next_ret' = [op |-> "add_recurring", ran |-> FALSE, kind |-> None,
                        name |-> name, outcome |-> None]
    /\ UNCHANGED <<tasks, runs_completed, utcnow, last_called, run_calls>>

\* rec["last_run"] is None or (now - rec["last_run"]) >= rec["interval"]
IsDue(rec) ==
    rec.last_run = NeverRun \/ utcnow - rec.last_run >= rec.interval

\* self.tasks.remove(task)
RemoveAt(ts, i) == [j \in 1..(Len(ts) - 1) |-> IF j < i THEN ts[j] ELSE ts[j + 1]]

\* The first element of a non-empty set of indices: where the for loop stops.
FirstOf(is) == CHOOSE i \in is : \A j \in is : i <= j

\* rec["last_run"] = now stands after the await in the try block: it is
\* reached when func returned.
LastRunAfter(rec, outcome) == IF outcome = "ok" THEN utcnow ELSE rec.last_run

\* run_next(), with what the awaited func does: "ok" or "raise".
RunNextCall(outcome) ==
    LET dueTasks == {i \in 1..Len(tasks) : tasks[i].run_at <= utcnow}
        dueRecs == {i \in 1..Len(recurring) : IsDue(recurring[i])}
        nOk == IF outcome = "ok" THEN 1 ELSE 0
    IN
    /\ run_calls < MaxRuns
    /\ run_calls' = run_calls + 1
    /\ IF dueTasks # {}
       THEN LET i == FirstOf(dueTasks) IN
            /\ runs_completed' = runs_completed + nOk
            /\ tasks' = RemoveAt(tasks, i)
            /\ run_next_ret' = [op |-> "run_next", ran |-> TRUE,
                                kind |-> "task", name |-> tasks[i].name,
                                outcome |-> outcome]
            /\ UNCHANGED <<recurring, last_called>>
       ELSE IF dueRecs # {}
       THEN LET i == FirstOf(dueRecs) IN
            /\ runs_completed' = runs_completed + nOk
            /\ recurring' = [recurring EXCEPT ![i].last_run =
                                LastRunAfter(recurring[i], outcome)]
            /\ last_called' = [last_called EXCEPT ![recurring[i].name] = utcnow]
            /\ run_next_ret' = [op |-> "run_next", ran |-> TRUE,
                                kind |-> "recurring",
                                name |-> recurring[i].name,
                                outcome |-> outcome]
            /\ UNCHANGED tasks
       ELSE /\ run_next_ret' = [op |-> "run_next", ran |-> FALSE,
                                kind |-> None, name |-> None,
                                outcome |-> None]
            /\ UNCHANGED <<tasks, recurring, runs_completed, last_called>>
    /\ UNCHANGED utcnow

\* Time passes: during the awaits and during run_forever's sleep(1).
MinutePasses ==
    /\ utcnow < MaxMinutes
    /\ utcnow' = utcnow + 1
    /\ UNCHANGED <<tasks, recurring, runs_completed, run_next_ret, last_called,
                   run_calls>>

RecurOthers == <<schedVars, govVars, ledgerVars, workerVars, learnVars,
                 logVars, planVars, threatVars, goalVars, crmVars, limiterVars,
                 notifyVars, runVars, askVars>>

\* run_forever calling run_next, with tasks added before and in between.
RecurNext ==
    \/ \E n \in OneShotNames, d \in Delays : SchedulerAdd(n, d) /\ UNCHANGED RecurOthers
    \/ \E n \in RecurNames, iv \in Intervals : AddRecurring(n, iv) /\ UNCHANGED RecurOthers
    \/ \E o \in CallOutcomes : RunNextCall(o) /\ UNCHANGED RecurOthers
    \/ MinutePasses /\ UNCHANGED RecurOthers

\* =========================================================================
\* brain/assistant.py AIAssistant
\* =========================================================================

\* The worker tasks that call assistant.ask on the one event loop.
AskCallers == {"w1", "w2"}

AskRet(op, c, answer) == [op |-> op, caller |-> c, answer |-> answer]

AskConstructed ==
    /\ client = FALSE
    /\ calls_today = 0
    /\ ask_pc = [c \in AskCallers |-> "idle"]
    /\ requests_sent = 0
    /\ ask_ret = AskRet("init", None, None)

\* init() with an API key configured
AssistantInit ==
    /\ ~client
    /\ client' = TRUE
    /\ ask_ret' = AskRet("init_client", None, None)
    /\ UNCHANGED <<calls_today, ask_pc, requests_sent>>

\* if self.calls_today >= self.max_calls: return ""
LimitReached(n) == n >= MaxCalls

\* ask() up to its await: the two early returns, or the request goes out.
AskBegin(c) ==
    /\ ask_pc[c] = "idle"
    /\ IF ~client \/ LimitReached(calls_today)
       THEN /\ ask_ret' = AskRet("refused", c, "")
            /\ UNCHANGED <<ask_pc, requests_sent>>
       ELSE /\ requests_sent < MaxCalls + MaxOver
            /\ ask_pc' = [ask_pc EXCEPT ![c] = "awaiting"]
            /\ requests_sent' = requests_sent + 1
            /\ ask_ret' = AskRet("request", c, None)
    /\ UNCHANGED <<client, calls_today>>

\* The await returns: calls_today += 1 and the answer, or the exception is
\* caught and "" returned.
AskEnd(c, outcome) ==
    /\ ask_pc[c] = "awaiting"
    /\ ask_pc' = [ask_pc EXCEPT ![c] = "idle"]
    /\ IF outcome = "ok"
       THEN /\ calls_today' = calls_today + 1
            /\ ask_ret' = AskRet("answered", c, "text")
       ELSE /\ ask_ret' = AskRet("failed", c, "")
            /\ UNCHANGED calls_today
    /\ UNCHANGED <<client, requests_sent>>

\* reset_daily(); the history counter starts again with it.
AssistantResetDaily ==
    /\ calls_today' = 0
    /\ requests_sent' = 0
    /\ ask_ret' = AskRet("reset_daily", None, None)
    /\ UNCHANGED <<client, ask_pc>>

AskOthers == <<schedVars, govVars, ledgerVars, workerVars, learnVars, logVars,
               planVars, threatVars, goalVars, crmVars, limiterVars,
               notifyVars, runVars, recurVars>>

AskNext ==
    \/ AssistantInit /\ UNCHANGED AskOthers
    \/ \E c \in AskCallers : AskBegin(c) /\ UNCHANGED AskOthers
    \/ \E c \in AskCallers, o \in CallOutcomes : AskEnd(c, o) /\ UNCHANGED AskOthers
    \/ AssistantResetDaily /\ UNCHANGED AskOthers

\* =========================================================================
\* Specifications
\* =========================================================================

Init == SchedInit /\ GovConstructed /\ LedgerConstructed /\ WorkersConstructed /\ LogConstructed /\ ThreatsConstructed
        /\ GoalsConstructed /\ CrmConstructed /\ LimiterConstructed
        /\ NotifyConstructed /\ RunConstructed /\ RecurConstructed
        /\ AskConstructed
        /\ PlanConstructed

\* The task scheduler.
Spec == Init /\ [][Next]_vars

\* The rate governor.
GovSpec == Init /\ [][GovNext]_vars

\* The ledgers, with process restarts.
LedgerSpec == Init /\ [][LedgerNext]_vars

\* The worker loops and main().
WorkerSpec == Init /\ [][WorkerNext]_vars

\* The same under the scheduling of the asyncio event loop.
WorkerFairSpec == WorkerSpec /\ WorkerFairness

\* The scheduler and the ActionLog table.
LogSpec == Init /\ [][LogNext]_vars

\* plan_day on the goals of the day.
PlanSpec == Init /\ [][PlanNext]_vars

\* detect_threat called again and again.
ClassifySpec == Init /\ [][ClassifyNext]_vars

\* The daily counters and their reset.
ResetSpec == Init /\ [][ResetNext]_vars

\* The loops of WorkerSpec with the messages _handle_error sends.
NotifySpec == Init /\ [][NotifyNext]_vars

\* Tasks calling rate_limiter.acquire on one key.
LimiterSpec == Init /\ [][LimiterNext]_vars

\* The same, where time passes and a caller whose sleep is over runs again.
LimiterFairSpec == LimiterSpec /\ LimiterFairness

\* Leads are added and the cold e-mail loop works through them.
OutreachSpec == Init /\ [][OutreachNext]_vars

\* report_progress called again and again.
GoalSpec == Init /\ [][GoalNext]_vars

\* should_proceed("apply", None) called again and again.
ApplySpec == Init /\ [][ApplyNext]_vars

\* The recurring scheduler under run_forever.
RecurSpec == Init /\ [][RecurNext]_vars

\* Worker tasks calling assistant.ask, and reset_daily.
AskSpec == Init /\ [][AskNext]_vars

\* run_schedule from its call to its return.
RunSpec == Init /\ [][RunNext]_vars

\* The same, where the loop body always goes on.
RunFairSpec == RunSpec /\ RunFairness

\* All worker shapes, _learn_forever included, around a shutdown.
ShutdownSpec == Init /\ [][ShutdownNext]_vars


\* ------------------------------------------------------------- claims C1, C2

C1_PosIn(seq, x) == CHOOSE i \in 1..Len(seq) : seq[i] = x
C1_PendingInQueue == {u \in Tasks : InQueue(u) /\ attempts[u] < MaxAttempts}

\* C1: every get_next_task that returns a task returns one whose priority
\* value is the lowest among the pending tasks then in the queue, and among
\* the queued tasks of that priority the one add_task received first (FIFO).
C1_PopLowestPriorityFifo ==
    [][ (sched_ret'.op = "get_next_task" /\ sched_ret'.task # {}) =>
          \A t \in sched_ret'.task, u \in C1_PendingInQueue :
              /\ priority[t] <= priority[u]
              /\ priority[u] = priority[t] =>
                     C1_PosIn(added_order, t) <= C1_PosIn(added_order, u) ]_vars

\* C2: once a task's attempts counter has reached max_attempts, no later
\* get_next_task call returns that task.
C2_ExhaustedNeverReturned ==
    [][ \A t \in Tasks :
          attempts[t] >= MaxAttempts =>
              ~(sched_ret'.op = "get_next_task" /\ t \in sched_ret'.task) ]_vars

\* C2's case: a get_next_task call met an exhausted task in the queue, dropped
\* it and returned another task.
C2_Witness ==
    /\ sched_ret.op = "get_next_task"
    /\ sched_ret.task # {}
    /\ \E t \in sched_ret.dropped : attempts[t] >= MaxAttempts

\* -------------------------------------------------------- claims C3, C4, C5

\* The five deny conditions of C3, on the state the call is made in.
C3_WindowCount(a, p) ==
    LET ts == action_timestamps[RateKey(a, p)]
    IN  Cardinality({i \in 1..Len(ts) : now - ts[i] < Hour})

C3_PlatformBlockedNow(p) ==
    p # None /\ p \in DOMAIN blocked_platforms /\ now < blocked_platforms[p]

C3_DenyCondition(a, p) ==
    \/ C3_PlatformBlockedNow(p)
    \/ p # None /\ failed_logins[p] >= MaxFailedLogins
    \/ api_calls_today >= MaxDailyApiCalls
    \/ money_spent_today >= MaxDailySpend
    \/ C3_WindowCount(a, p) >= RateLimit(a)

\* C3: should_proceed(action, platform) returns deny if and only if, at the
\* call, the platform has an unexpired block, or its failed-login count is
\* >= 3, or api_calls_today >= max_daily_api_calls, or money_spent_today >=
\* max_daily_spend, or the one-hour window count of the action's key is >= its
\* budget; in every other state it returns allow.
C3_DenyIffCondition ==
    [][ gov_ret'.op = "should_proceed" =>
          (gov_ret'.allow <=>
               ~C3_DenyCondition(gov_ret'.action, gov_ret'.platform)) ]_vars

\* C3's case: a call, made after time has passed, that no block, counter or
\* daily budget stopped and that the sliding window alone denied.
C3_Witness ==
    /\ gov_ret.op = "should_proceed"
    /\ gov_ret.reason = "rate_limited"
    /\ ~gov_ret.allow
    /\ now > 0

\* C4: after three consecutive record_failure("login", x) calls with no
\* record_success in between, every should_proceed("login", x) returns deny
\* while unblock_platform(x) has not been called and fewer than 24 hours have
\* passed since the third failure.
C4_DeniedWhileAutoBlocked ==
    [][ \A p \in Platforms :
          ( /\ gov_ret'.op = "should_proceed"
            /\ gov_ret'.action = "login"
            /\ gov_ret'.platform = p
            /\ \E t3 \in third_failure_at[p] : now - t3 < Day )
          => ~gov_ret'.allow ]_vars

\* C4's case: a login check on the auto-blocked platform, made later than the
\* third failure, within the 24 hours and after a record_success had reset
\* the failure counter, was denied.
C4_Witness ==
    \E p \in Platforms :
        /\ gov_ret.op = "should_proceed"
        /\ gov_ret.action = "login"
        /\ gov_ret.platform = p
        /\ ~gov_ret.allow
        /\ failed_logins[p] = 0
        /\ \E t3 \in third_failure_at[p] : now > t3 /\ now - t3 < Day

\* C5: after platform x was auto-blocked by three consecutive login failures,
\* calling unblock_platform(x), or letting 24 hours pass, makes the next
\* should_proceed("login", x) return allow again, when no daily budget and no
\* sliding-window limit is exhausted.
C5_AllowedAfterUnblockOrDay ==
    [][ \A p \in Platforms :
          ( /\ gov_ret'.op = "should_proceed"
            /\ gov_ret'.action = "login"
            /\ gov_ret'.platform = p
            /\ \/ auto_block[p] = "unblocked"
               \/ /\ auto_block[p] = "blocked"
                  /\ \E t3 \in third_failure_at[p] : now - t3 >= Day
            /\ api_calls_today < MaxDailyApiCalls
            /\ money_spent_today < MaxDailySpend
            /\ C3_WindowCount("login", p) < RateLimit("login") )
          => gov_ret'.allow ]_vars

\* hasDone(ns, key): the answer of the in-memory ledger, which the workers
\* consult before acting.
C6_HasDone(ns, k) == k \in ledger_set[ns]

\* C6: in the replied-e-mail and registered-forum ledgers, right after a
\* restart has reloaded the ledgers from their files, every key whose mark
\* had completed is reported as done, wherever the process had stopped, and
\* every key that was never acted on is reported as not done.
C6_MarkSurvivesRestart ==
    led_ret.op = "restart" =>
        \A ns \in {"replied_emails", "registered_forums"}, k \in Keys :
            /\ k \in marked[ns] => C6_HasDone(ns, k)
            /\ acted[ns][k] = 0 => ~C6_HasDone(ns, k)

\* C7: the external action for a key is never performed once the key's mark
\* has completed (the key is in the ledger and in its file): neither in a
\* later iteration nor after a restart.  A repeat after a stop between the
\* action and the end of the ledger write is not counted.
C7_NoRepeatOnceRecorded ==
    [][ \A ns \in Namespaces, k \in Keys :
          acted'[ns][k] > acted[ns][k] => k \notin marked[ns] ]_vars

\* C8: under the event loop's scheduling, when the body of a worker started
\* by wake_up raises on every iteration, every sibling worker whose own body
\* does not raise keeps completing iterations while work_loop is healthy:
\* whatever its completed-iteration count is, the count moves on.
C8_SiblingsKeepCompleting ==
    \A s \in Workers : \A n \in 0..MaxIter :
        ( /\ main_pc # "constructed"
          /\ \E t \in Workers \ {s} : t \in faulty
          /\ s \notin faulty
          /\ "work_loop" \notin faulty
          /\ completed[s] = n )
        ~> completed[s] = NextCount(n)

\* C8's case: a worker whose body raises has died in _handle_error, and a
\* healthy sibling has completed MaxIter iterations.
C8_Witness ==
    \E t \in Workers, s \in Workers :
        /\ t \in faulty
        /\ worker_pc[t] = "dead"
        /\ s \notin faulty
        /\ "work_loop" \notin faulty
        /\ completed[s] = MaxIter
        /\ running

\* C9: while running is true no worker loop has terminated: an exception of
\* an iteration, also one raised inside _handle_error, is caught at the loop
\* boundary.
C9_NoWorkerTerminatesWhileRunning ==
    running => \A w \in Workers : worker_pc[w] \notin {"dead", "returned"}

\* C10: run_forever has returned or raised only after running was set to
\* false: no exception of work_loop's body or error handling leaves it.
C10_LeavesWorkLoopOnlyAfterShutdown ==
    main_pc \in {"raised", "returned"} => ~running

\* C11: once shutdown has set running to false, no worker begins a new body
\* iteration: neither a worker loop at its loop condition nor _learn_forever
\* at its loop condition or between two topics enters its try block.
C11_NoNewIterationAfterShutdown ==
    [][ ~running =>
          /\ ~(learn_pc \in {"top", "for"} /\ learn_pc' \in {"sleep", "handling"})
          /\ \A w \in Workers :
                ~(worker_pc[w] = "top" /\ worker_pc'[w] \in {"sleep", "handling"})
      ]_vars

\* C12: every call of execute_task that invokes a handler asks the governor
\* first and reports to it afterwards: within the call should_proceed returns
\* allow, which records a timestamp for the action, and the governor's last
\* call is no longer the one that was the last before execute_task.
C12_HandlerCallGoverned ==
    [][ \A t \in Tasks :
          ( /\ sched_ret.op = "get_next_task"
            /\ sched_ret'.op = "execute_task"
            /\ t \in sched_ret'.task
            /\ task_type[t] \in task_handlers )
          => /\ \E k \in DOMAIN action_timestamps :
                   Len(action_timestamps'[k]) > 0
                   /\ action_timestamps'[k] # action_timestamps[k]
             /\ gov_ret'.op # "init" ]_vars

\* C13: execute_task on a task whose task_type has no registered handler
\* returns False, leaves the task with status "skipped", increases attempts
\* by exactly 1 and leaves the queue as it was, the task not in it.
C13_NoHandlerSkipped ==
    [][ \A t \in Tasks :
          ( /\ sched_ret.op = "get_next_task"
            /\ sched_ret'.op = "execute_task"
            /\ t \in sched_ret'.task
            /\ task_type[t] \notin task_handlers )
          => /\ sched_ret'.result = FALSE
             /\ status'[t] = "skipped"
             /\ attempts'[t] = attempts[t] + 1
             /\ task_queue' = task_queue
             /\ \A i \in 1..Len(task_queue') : task_queue'[i] # t ]_vars

\* C13's case: execute_task has just run, for the first time, on a task with
\* no handler registered for its type.
C13_Witness ==
    \E t \in Tasks :
        /\ sched_ret.op = "execute_task"
        /\ t \in sched_ret.task
        /\ sched_ret.outcome = None
        /\ task_type[t] \notin task_handlers
        /\ status[t] = "skipped"
        /\ attempts[t] = 1

\* C14: when the handler raises during execute_task, the call returns False,
\* the task's status is "error", and afterwards the task is in the queue if
\* and only if its attempts counter is below max_attempts.
C14_RaiseRequeuesWhileAttemptsLeft ==
    [][ \A t \in Tasks :
          ( /\ sched_ret.op = "get_next_task"
            /\ sched_ret'.op = "execute_task"
            /\ t \in sched_ret'.task
            /\ sched_ret'.outcome = "raise" )
          => /\ sched_ret'.result = FALSE
             /\ status'[t] = "error"
             /\ (\E i \in 1..Len(task_queue') : task_queue'[i] = t)
                   <=> attempts'[t] < MaxAttempts ]_vars

\* C14's case: the handler raised on the task's last attempt and the task
\* was dropped, while another task waits in the queue.
C14_Witness ==
    \E t \in Tasks :
        /\ sched_ret.op = "execute_task"
        /\ t \in sched_ret.task
        /\ sched_ret.outcome = "raise"
        /\ attempts[t] = MaxAttempts
        /\ ~InQueue(t)
        /\ task_queue # <<>>

\* C15: when the handler of a dispatched task succeeds, execute_task returns
\* true, the task's status is "completed" and the call has appended exactly
\* one ActionLog row; and no step changes or removes a row of the ActionLog.
C15_SuccessLoggedOnce ==
    [][ /\ Len(action_log') >= Len(action_log)
        /\ SubSeq(action_log', 1, Len(action_log)) = action_log
        /\ \A t \in Tasks :
              ( /\ sched_ret.op = "get_next_task"
                /\ sched_ret'.op = "execute_task"
                /\ t \in sched_ret'.task
                /\ sched_ret'.outcome = "true" )
              => /\ sched_ret'.result = TRUE
                 /\ status'[t] = "completed"
                 /\ Len(action_log') = Len(action_log) + 1 ]_vars

\* The tasks the plan_day call of this step has made.
C16_NewTasks == (created + 1)..created'

\* C16: one plan_day call makes at most 10 tasks for each (goal, template)
\* pair of get_daily_tasks, whatever the template's target count is; a
\* template is told by its goal, task type and action.
C16_BatchCeiling ==
    [][ plans_made' = plans_made + 1 =>
          \A t \in C16_NewTasks :
              task_plan'[t].goal_id # 0 =>
                  Cardinality({u \in C16_NewTasks :
                                  /\ task_plan'[u].goal_id = task_plan'[t].goal_id
                                  /\ task_plan'[u].action = task_plan'[t].action
                                  /\ task_type'[u] = task_type'[t]}) <= 10 ]_vars

\* C16's case: plan_day has run on two goals, one of them the Twitter goal
\* whose follow template asks for 100 tasks, and exactly 10 follow tasks
\* were made.
C16_Witness ==
    /\ plans_made = 1
    /\ Len(plan_ret.goals) = 2
    /\ \E i \in 1..2 : plan_ret.goals[i].category = "social"
    /\ Cardinality({t \in DOMAIN task_plan : task_plan[t].action = "follow"}) = 10

\* The goal of C17's scenario.
C17_Goal ==
    [id |-> 1, category |-> "income", title |-> "Earn", target_value |-> 1000,
     current_value |-> 0, has_deadline |-> TRUE, days |-> 10, priority |-> 9]

C17_Named(t, name) == task_plan'[t].name = <<name>>

\* C17: with the single active goal INCOME / target 1000 / current 0 /
\* deadline in 10 days / priority 9, one plan_day call on an empty queue puts
\* into the queue exactly 10 tasks of action apply_to_jobs, each of priority
\* HIGH, and each of the routine tasks check_emails, check_telegram and
\* daily_learning exactly once.
C17_IncomeGoalPlan ==
    [][ (plans_made' = plans_made + 1 /\ plan_ret'.goals = <<C17_Goal>>) =>
          LET inQueue == {task_queue'[i] : i \in 1..Len(task_queue')}
              apply == {t \in inQueue : task_plan'[t].action = "apply_to_jobs"}
          IN  /\ inQueue = C16_NewTasks
              /\ Cardinality(apply) = 10
              /\ \A t \in apply : priority'[t] = 2 /\ status'[t] = "pending"
              /\ \A name \in {"check_emails", "check_telegram", "daily_learning"} :
                    Cardinality({t \in inQueue : C17_Named(t, name)}) = 1 ]_vars

\* C17's case: plan_day has run on that single goal and the queue holds its
\* tasks: the 10 apply tasks, one trading task and the 3 routine tasks.
C17_Witness ==
    /\ plans_made = 1
    /\ plan_ret.goals = <<C17_Goal>>
    /\ Len(task_queue) = 14
    /\ Cardinality({t \in DOMAIN task_plan : task_plan[t].action = "apply_to_jobs"}) = 10

\* The timestamps of the allowed should_proceed("apply", None) calls that
\* are still within the last hour.
C18_RecentApplies ==
    SelectSeq(action_timestamps[RateKey("apply", None)],
              LAMBDA ts : InWindow(ts, now))

\* C18: with no daily budget exhausted, a should_proceed("apply", None)
\* call is allowed when fewer than 60 such calls were allowed within the
\* last hour and denied otherwise, so that of 61 calls within one hour the
\* first 60 are allowed and the 61st is denied.
C18_SixtyAppliesPerHour ==
    [][ ( /\ gov_ret'.op = "should_proceed"
          /\ gov_ret'.action = "apply"
          /\ gov_ret'.platform = None
          /\ api_calls_today < MaxDailyApiCalls
          /\ money_spent_today < MaxDailySpend )
        => (gov_ret'.allow <=> Len(C18_RecentApplies) < 60) ]_vars

\* The UTC day of the current instant.
C19_Today == now \div Day

\* C19: daily_reset takes effect once per UTC day: the first call of a UTC
\* day zeroes api_calls_today, money_spent_today and the active threats, a
\* later call on the same UTC day leaves all three as they are.
C19_ResetOncePerDay ==
    [][ gov_ret'.op = "daily_reset" =>
          IF last_reset_day = C19_Today
          THEN /\ api_calls_today' = api_calls_today
               /\ money_spent_today' = money_spent_today
               /\ current_threats' = current_threats
          ELSE /\ api_calls_today' = 0
               /\ money_spent_today' = 0
               /\ current_threats' = <<>> ]_vars

\* C20: a record_success(action, platform) call, whatever the action and the
\* platform, leaves the failed-login counter of that platform at 0.
C20_SuccessClearsFailedLogins ==
    [][ \A a \in GovActions, p \in Platforms :
            RecordSuccess(a, p) => failed_logins'[p] = 0 ]_vars

\* C21: whatever report_progress calls are made, the current_value of a goal
\* whose status is active never decreases.
C21_ProgressNeverDecreases ==
    [][ \A g \in GoalIds :
            goal_status[g] = "active" => goal_current'[g] >= goal_current[g] ]_vars

\* C22: a goal's status becomes completed in the report_progress call whose
\* value first reaches or exceeds target_value, and a completed goal stays
\* completed under every later report_progress call, so that get_active_goals
\* never returns it again.
C22_CompletedForGood ==
    [][ \A g \in GoalIds :
            /\ ( /\ goal_ret'.op = "report_progress"
                 /\ goal_ret'.goal_id = g
                 /\ goal_ret'.value >= GoalTarget(g) )
               => goal_status'[g] = "completed"
            /\ ( goal_status[g] = "active" /\ goal_status'[g] = "completed" )
               => ( goal_ret'.goal_id = g /\ goal_ret'.value >= GoalTarget(g) )
            /\ goal_status[g] = "completed"
               => ( goal_status'[g] = "completed" /\ g \notin GetActiveGoals' ) ]_vars

\* C22's case: a completed goal whose current_value a later report_progress
\* call has set below its target; it is still completed.
C22_Witness ==
    \E g \in GoalIds :
        /\ goal_status[g] = "completed"
        /\ goal_current[g] < GoalTarget(g)
        /\ goal_ret.op = "report_progress"
        /\ goal_ret.goal_id = g

\* C23: a target is marked as handled only after the external side effect
\* for it returned success: a CRM lead becomes "contacted" only in a step
\* whose send_cold_email returned True, and a failed or skipped send never
\* marks its lead.
C23_MarkedOnlyAfterSuccess ==
    [][ \A l \in Leads :
            (lead_status[l] # "contacted" /\ lead_status'[l] = "contacted")
                => l \in delivered' ]_vars

\* The table of C24: suspension, captcha, rate-limit, auth-failure and
\* security-breach keywords, first match wins, anything else NONE.
C24_Table(event) ==
    IF AnyWord(event, SuspensionWords) THEN "HIGH"
    ELSE IF AnyWord(event, CaptchaWords) THEN "MEDIUM"
    ELSE IF AnyWord(event, RateLimitWords) THEN "MEDIUM"
    ELSE IF AnyWord(event, AuthFailureWords) THEN "LOW"
    ELSE IF AnyWord(event, BreachWords) THEN "CRITICAL"
    ELSE "NONE"

\* C24: detect_threat returns, for every event text, the level of the first
\* matching row of the five-row table (suspension HIGH, captcha MEDIUM,
\* rate limit MEDIUM, auth failure LOW, security breach CRITICAL) and NONE
\* for a text that matches no row.
C24_FiveRowTable ==
    threat_ret.op = "detect_threat"
        => threat_ret.level = C24_Table(threat_ret.event)

\* C25: a rate-limit wait terminates: a caller of RateLimiter.acquire that
\* has started to wait gets its call returned, also when other callers keep
\* acquiring the same key.
C25_AcquireReturns ==
    \A c \in Callers :
        [](caller_pc[c] = "sleeping" => <>(caller_pc[c] = "returned"))

\* C26: failure notifications have a bounded frequency: no loop, however
\* often its body fails, tells the owner at the end of MaxStreak iterations
\* in a row.
C26_NoNotificationPerIteration ==
    \A l \in Loops : notify_streak[l] < MaxStreak

\* ------------------------------------------------------------------ claim C27

\* C27: over a run of run_schedule no task is executed more than max_attempts
\* times (execute_task counts every execution in attempts, handler called or
\* not), a task whose handler raised max_attempts times is no longer queued,
\* and every task in the queue has attempts < max_attempts.
C27_AtMostMaxAttempts ==
    \A t \in 1..created :
        /\ attempts[t] <= MaxAttempts
        /\ InQueue(t) => attempts[t] < MaxAttempts

\* A task whose handler raised max_attempts times has been dropped.
C27_Witness ==
    \E t \in 1..created :
        /\ attempts[t] = MaxAttempts
        /\ status[t] = "error"
        /\ ~InQueue(t)
        /\ run_pc = "top"


\* ------------------------------------------------------------------ claim C28

C28_OneBatch == BatchCap * Len(GetDailyTasks(plan_ret.goals)) + Len(RoutineTasks)

C29_NotBeforeInterval ==
    [][\A i \in 1..Len(recurring) :
          (/\ run_calls' = run_calls + 1
           /\ run_next_ret'.kind = "recurring"
           /\ run_next_ret'.name = recurring[i].name)
          => \/ last_called[recurring[i].name] = NeverRun
             \/ utcnow - last_called[recurring[i].name] >= recurring[i].interval
      ]_vars


\* ------------------------------------------------------------------ claim C30

\* C30: between two reset_daily calls ask sends at most max_calls requests,
\* however the callers interleave.
C30_AtMostMaxCalls == requests_sent <= MaxCalls


====
